---- MODULE Spec2Model ----
(***************************************************************************)
(* Model of src/gocert.py: the GoCert HTTP client.  A GoCert object holds   *)
(* a base url and a CA path; each of its seven methods performs one         *)
(* blocking HTTP call and maps the outcome to a return value, to log        *)
(* records, or to an exception that leaves the method.                      *)
(***************************************************************************)
EXTENDS Integers, Sequences, FiniteSets, TLC

\* Number of method calls a behaviour makes.
MaxCalls == 1
\* Longest certificate-requests array the server sends.
MaxRows == 2

(***************************************************************************)
(* Response bodies.  A body is the text "raw" that is not JSON, or a JSON   *)
(* document.  Strings are sequences of one-character strings.               *)
(***************************************************************************)
Raw == [j |-> "raw"]
JNull == [j |-> "null"]
JBool(b) == [j |-> "bool", b |-> b]
JNum(n) == [j |-> "number", n |-> n]
JStr(s) == [j |-> "string", s |-> s]
JArr(items) == [j |-> "array", items |-> items]
JObj(members) == [j |-> "object", members |-> members]

NoMembers == [k \in {} |-> JNull]

\* Entries of the certificate-requests table as the server encodes them.
Entries ==
    { JObj([id |-> JNum(1), csr |-> JStr(<<"a">>), certificate |-> JStr(<<"c">>)]),
      JObj([id |-> JNum(2), csr |-> JStr(<<"b">>)]) }

RECURSIVE SeqsUpTo(_, _)
SeqsUpTo(S, n) ==
    IF n = 0 THEN { <<>> }
    ELSE LET shorter == SeqsUpTo(S, n - 1)
         IN  shorter \cup { Append(s, e) : s \in { t \in shorter : Len(t) = n - 1 }, e \in S }

Tables == { JArr(s) : s \in SeqsUpTo(Entries, MaxRows) }

Bodies ==
    Tables \cup
    { Raw, JNull, JNum(7), JArr(<<JNum(1)>>),
      JObj(NoMembers),
      JObj([initialized |-> JBool(TRUE), id |-> JNum(3)]),
      JObj([initialized |-> JBool(FALSE), id |-> JNull]),
      JObj([initialized |-> JNull, id |-> JNum(0)]),
      JObj([initialized |-> JNum(1), id |-> JStr(<<"a">>)]),
      JObj([initialized |-> JStr(<<"y">>), id |-> JStr(<<"1", "2">>)]) }

\* Status codes a response can carry: the edges of the classes.
Statuses == { 101, 200, 299, 399, 400, 599, 600 }

(***************************************************************************)
(* Outcomes of requests.get / requests.post: no response at all (the        *)
(* connection failed, or the TLS handshake did), or a response.             *)
(***************************************************************************)
Outcomes ==
    { [kind |-> "transport"], [kind |-> "tls"] } \cup
    { [kind |-> "response", status_code |-> s, body |-> b] : s \in Statuses, b \in Bodies }

(***************************************************************************)
(* Python values.                                                           *)
(***************************************************************************)
None == [t |-> "NoneType"]
PyBool(b) == [t |-> "bool", b |-> b]
PyInt(n) == [t |-> "int", n |-> n]
PyStr(s) == [t |-> "str", s |-> s]
PyList(items) == [t |-> "list", items |-> items]
PyDict(items) == [t |-> "dict", items |-> items]
\* Response.text: the str holding the text of the body.
PyText(body) == [t |-> "str", text |-> body]

\* json.loads on a JSON document.
RECURSIVE loads(_)
loads(doc) ==
    CASE doc.j = "null" -> None
      [] doc.j = "bool" -> PyBool(doc.b)
      [] doc.j = "number" -> PyInt(doc.n)
      [] doc.j = "string" -> PyStr(doc.s)
      [] doc.j = "array" -> PyList([i \in DOMAIN doc.items |-> loads(doc.items[i])])
      [] doc.j = "object" -> PyDict([k \in DOMAIN doc.members |-> loads(doc.members[k])])

\* bool(v): Python truth value.
truthy(v) ==
    CASE v.t = "NoneType" -> FALSE
      [] v.t = "bool" -> v.b
      [] v.t = "int" -> v.n # 0
      [] v.t = "str" -> v.s # <<>>
      [] v.t = "list" -> v.items # <<>>
      [] v.t = "dict" -> DOMAIN v.items # {}

\* d.get(key, default) on a dict.
dict_get(d, key, default) ==
    IF key \in DOMAIN d.items THEN d.items[key] ELSE default

\* int(v) raises (TypeError or ValueError) unless v is a number, a bool or a
\* str of decimal digits.  (The strings of the model hold no sign, blank or
\* underscore.)
Digits == <<"0", "1", "2", "3", "4", "5", "6", "7", "8", "9">>
IsDigit(c) == \E i \in DOMAIN Digits : Digits[i] = c
DigitValue(c) == (CHOOSE i \in DOMAIN Digits : Digits[i] = c) - 1

RECURSIVE DecimalValue(_)
DecimalValue(s) ==
    IF s = <<>> THEN 0
    ELSE 10 * DecimalValue(SubSeq(s, 1, Len(s) - 1)) + DigitValue(s[Len(s)])

int_raises(v) ==
    CASE v.t = "int" -> "none"
      [] v.t = "bool" -> "none"
      [] v.t = "str" ->
            IF v.s # <<>> /\ \A i \in DOMAIN v.s : IsDigit(v.s[i])
            THEN "none" ELSE "ValueError"
      [] OTHER -> "TypeError"

int(v) ==
    CASE v.t = "int" -> PyInt(v.n)
      [] v.t = "bool" -> PyInt(IF v.b THEN 1 ELSE 0)
      [] v.t = "str" -> PyInt(DecimalValue(v.s))

(***************************************************************************)
(* The try block shared by the seven methods:                               *)
(*     req = requests.post/get(...); req.raise_for_status()                 *)
(* guarded by  except (requests.RequestException, OSError).                 *)
(***************************************************************************)
\* Response.raise_for_status raises HTTPError for a 4xx or 5xx status.
raise_for_status(status_code) == 400 <= status_code /\ status_code < 600

\* The exception the try block raises, "none" when it completes.
try_raises(out) ==
    CASE out.kind = "transport" -> "ConnectionError"
      [] out.kind = "tls" -> "SSLError"
      [] out.kind = "response" ->
            IF raise_for_status(out.status_code) THEN "HTTPError" ELSE "none"

\* requests.RequestException and its subclasses, and OSError.
RequestException == { "ConnectionError", "SSLError", "HTTPError" }
handled(exc) == exc \in RequestException \cup { "OSError" }

\* The local name req is bound only once requests.post/get has returned.
req_bound(out) == out.kind = "response"

\* Response.json raises on a body that is not JSON.
json_raises(body) == body.j = "raw"
json(body) == loads(body)

(***************************************************************************)
(* What a call does: how it leaves the method and what it logs.             *)
(***************************************************************************)
Return(v) == [kind |-> "return", val |-> v]
Raise(exc) == [kind |-> "raise", exc |-> exc]
LogRecord(level, msg, args) == [levelname |-> level, msg |-> msg, args |-> args]
Effect(result, records) == [result |-> result, records |-> records]

\* Evaluating the arguments req.status_code, req.text of a logging call in an
\* except block, then the statement after it.
log_failure(out, level, msg, result) ==
    IF req_bound(out)
    THEN Effect(result, << LogRecord(level, msg, <<out.status_code, PyText(out.body)>>) >>)
    ELSE Effect(Raise("UnboundLocalError"), <<>>)

\* login without its raise_for_status call.
login_call_unchecked(out) ==
    IF out.kind = "response"
    THEN Effect(Return(PyText(out.body)),
                << LogRecord("INFO", "logged in to GoCert successfully", <<>>) >>)
    ELSE log_failure(out, "ERROR", "couldn't log in: code %s, %s", Return(None))

\* The body of GoCert.login.
login_call(out) ==
    IF handled(try_raises(out))
    THEN log_failure(out, "ERROR", "couldn't log in: code %s, %s", Return(None))
    ELSE Effect(Return(PyText(out.body)),
                << LogRecord("INFO", "logged in to GoCert successfully", <<>>) >>)

\* token_is_valid without its raise_for_status call.
token_is_valid_call_unchecked(out) ==
    IF out.kind = "response" THEN Effect(Return(PyBool(TRUE)), <<>>)
    ELSE Effect(Return(PyBool(FALSE)), <<>>)

token_is_valid_call(out) ==
    IF handled(try_raises(out))
    THEN Effect(Return(PyBool(FALSE)), <<>>)
    ELSE Effect(Return(PyBool(TRUE)), <<>>)

is_api_available_call(out) ==
    IF handled(try_raises(out))
    THEN Effect(Return(PyBool(FALSE)), <<>>)
    ELSE Effect(Return(PyBool(TRUE)), <<>>)

is_initialized_call(out) ==
    IF handled(try_raises(out))
    THEN Effect(Return(PyBool(FALSE)), <<>>)
    ELSE IF json_raises(out.body) THEN Effect(Raise("JSONDecodeError"), <<>>)
    ELSE LET body == json(out.body)
         IN  IF body.t # "dict" THEN Effect(Raise("AttributeError"), <<>>)
             ELSE Effect(Return(dict_get(body, "initialized", PyBool(FALSE))), <<>>)

create_first_user_call(out) ==
    IF handled(try_raises(out))
    THEN log_failure(out, "WARNING", "couldn't create first user: code %s, %s", Return(None))
    ELSE LET info == << LogRecord("INFO", "created the first user in GoCert.", <<>>) >>
         IN  IF json_raises(out.body) THEN Effect(Raise("JSONDecodeError"), info)
             ELSE LET body == json(out.body)
                  IN  IF body.t # "dict" THEN Effect(Raise("AttributeError"), info)
                      ELSE LET id == dict_get(body, "id", None)
                           IN  IF ~truthy(id) THEN Effect(Return(None), info)
                               ELSE IF int_raises(id) # "none"
                                    THEN Effect(Raise(int_raises(id)), info)
                                    ELSE Effect(Return(int(id)), info)

\* The dataclasses CertificateRequest and CertificateRequests.
CertificateRequest(id, csr, certificate) ==
    [t |-> "CertificateRequest", id |-> id, csr |-> csr, certificate |-> certificate]
CertificateRequests(rows) == [t |-> "CertificateRequests", rows |-> rows]

\* The comprehension stopping one entry short.
rows_dropping_last(table) ==
    [i \in 1 .. (Len(table.items) - 1) |->
        CertificateRequest(dict_get(table.items[i], "id", None),
                           dict_get(table.items[i], "csr", None),
                           dict_get(table.items[i], "certificate", None))]

\* [CertificateRequest(csr.get("id"), csr.get("csr"), csr.get("certificate"))
\*  for csr in table], for a list of dicts.
rows_of(table) ==
    [i \in DOMAIN table.items |->
        CertificateRequest(dict_get(table.items[i], "id", None),
                           dict_get(table.items[i], "csr", None),
                           dict_get(table.items[i], "certificate", None))]

\* What the comprehension raises: iterating an int or a bool is a TypeError;
\* the elements of a str and the keys of a dict are strs, without a get.
comprehension_raises(table) ==
    CASE table.t \in { "int", "bool" } -> "TypeError"
      [] table.t \in { "str", "dict" } -> "AttributeError"
      [] table.t = "list" ->
            IF \A i \in DOMAIN table.items : table.items[i].t = "dict"
            THEN "none" ELSE "AttributeError"

\* The conditional giving None, not [], for a falsy table.
rows_or_none(table) ==
    IF ~truthy(table) THEN Return(None)
    ELSE IF comprehension_raises(table) # "none" THEN Raise(comprehension_raises(table))
    ELSE Return(CertificateRequests(rows_of(table)))

\* CertificateRequests(rows=[...] if table else [])
rows_or_empty(table) ==
    IF ~truthy(table) THEN Return(CertificateRequests(<<>>))
    ELSE IF comprehension_raises(table) # "none" THEN Raise(comprehension_raises(table))
    ELSE Return(CertificateRequests(rows_of(table)))

get_certificate_requests_table_call(out) ==
    IF handled(try_raises(out))
    THEN log_failure(out, "WARNING",
                     "couldn't retrieve certificate requests table: code %s, %s", Return(None))
    ELSE IF json_raises(out.body) THEN Effect(Raise("JSONDecodeError"), <<>>)
    ELSE Effect(rows_or_empty(json(out.body)), <<>>)

post_csr_call(out) ==
    IF handled(try_raises(out))
    THEN log_failure(out, "ERROR",
                     "couldn't post new certificate requests: code %s, %s", Return(None))
    ELSE Effect(Return(None), <<>>)

(***************************************************************************)
(* State: the client object, the records the module's logger has emitted,   *)
(* and the call made last with the way it ended.                            *)
(***************************************************************************)
VARIABLES self, log, last, result, calls
vars == << self, log, last, result, calls >>

API_VERSION == "v1"

\* GoCert.__init__
Init ==
    /\ self \in { [url |-> "https://gocert", ca_path |-> p] : p \in { "", "/ca.pem" } }
    /\ log = <<>>
    /\ last = [op |-> "none"]
    /\ result = [kind |-> "none"]
    /\ calls = 0

\* verify=self.ca_path if self.ca_path else None
verify == IF self.ca_path # "" THEN [t |-> "str", path |-> self.ca_path] ELSE None

Request(method, path, auth) ==
    [method |-> method, url |-> <<self.url>> \o path, verify |-> verify, bearer |-> auth]

\* One call of a method: the request goes out, the outcome comes back, the
\* method ends as its effect says.
Call(op, request, out, effect) ==
    /\ calls < MaxCalls
    /\ calls' = calls + 1
    /\ last' = [op |-> op, request |-> request, outcome |-> out, logged |-> Len(log)]
    /\ result' = effect.result
    /\ log' = log \o effect.records
    /\ UNCHANGED self

login ==
    \E out \in Outcomes :
        Call("login", Request("POST", <<"login">>, FALSE), out, login_call(out))

token_is_valid ==
    \E out \in Outcomes :
        Call("token_is_valid", Request("GET", <<"accounts">>, TRUE), out,
             token_is_valid_call(out))

is_api_available ==
    \E out \in Outcomes :
        Call("is_api_available", Request("GET", <<"status">>, FALSE), out,
             is_api_available_call(out))

is_initialized ==
    \E out \in Outcomes :
        Call("is_initialized", Request("GET", <<"status">>, FALSE), out,
             is_initialized_call(out))

create_first_user ==
    \E out \in Outcomes :
        Call("create_first_user", Request("POST", <<"api", API_VERSION, "accounts">>, FALSE),
             out, create_first_user_call(out))

get_certificate_requests_table ==
    \E out \in Outcomes :
        Call("get_certificate_requests_table",
             Request("GET", <<"api", API_VERSION, "certificate_requests">>, TRUE),
             out, get_certificate_requests_table_call(out))

post_csr ==
    \E out \in Outcomes :
        Call("post_csr",
             Request("POST", <<"api", API_VERSION, "certificate_requests">>, TRUE),
             out, post_csr_call(out))

Next ==
    \/ login
    \/ token_is_valid
    \/ is_api_available
    \/ is_initialized
    \/ create_first_user
    \/ get_certificate_requests_table
    \/ post_csr

Spec == Init /\ [][Next]_vars

TypeOK == calls \in 0 .. MaxCalls

(***************************************************************************)
(* Vocabulary of the properties.                                            *)
(***************************************************************************)
Called(op) == last.op = op
Responded == last.op # "none" /\ last.outcome.kind = "response"
NoResponse == last.op # "none" /\ last.outcome.kind \in { "transport", "tls" }
\* A 4xx or 5xx status: the narrowest reading of "non-success status".
ErrorStatus == Responded /\ last.outcome.status_code \in 400 .. 599
Non2xx == Responded /\ last.outcome.status_code \notin 200 .. 299
\* The request succeeded: raise_for_status let the response through.
Succeeded == Responded /\ ~ErrorStatus
\* The narrowest reading of "the request succeeds": a 2xx response.
Succeeded2xx == Responded /\ ~Non2xx
Failed == NoResponse \/ ErrorStatus

BooleanOps == { "token_is_valid", "is_api_available", "is_initialized" }
Sentinel(op) == IF op \in BooleanOps THEN PyBool(FALSE) ELSE None

\* The member of a JSON object as Python sees it, None when it is missing.
Member(obj, key) ==
    IF key \in DOMAIN obj.members THEN loads(obj.members[key]) ELSE None
HasMember(doc, key) == doc.j = "object" /\ key \in DOMAIN doc.members

\* C1: every operation, on a transport failure, a TLS failure or an error
\* status, returns its sentinel (None or False) and raises nothing.
C1_SentinelOnEveryFailure ==
    Failed => result = Return(Sentinel(last.op))

C4_PostCsrNeverRaises ==
    Called("post_csr") => result = Return(None)

\* C5: get_certificate_requests_table returns a collection with no rows when
\* the request succeeds with an empty or null table, and returns None only
\* when the request failed.
C5_EmptyTableIsEmptyCollection ==
    Called("get_certificate_requests_table") =>
        /\ (Succeeded /\ last.outcome.body \in { JArr(<<>>), JNull })
              => result = Return(CertificateRequests(<<>>))
        /\ result = Return(None) => Failed

C5_Witness ==
    /\ Called("get_certificate_requests_table")
    /\ Succeeded
    /\ last.outcome.body = JNull
    /\ result = Return(CertificateRequests(<<>>))

\* C6: is_initialized returns False, and raises nothing, when the request
\* fails and when a successful response has no "initialized" field, whatever
\* the body is.
C6_FalseWithoutField ==
    (Called("is_initialized")
        /\ (Failed \/ (Succeeded2xx /\ ~HasMember(last.outcome.body, "initialized"))))
    => result = Return(PyBool(FALSE))

\* C7: create_first_user returns the numeric id of the body as an int whenever
\* the request succeeds, 0 included.
C7_ReturnsEveryNumericId ==
    (Called("create_first_user") /\ Succeeded2xx /\ HasMember(last.outcome.body, "id")
        /\ last.outcome.body.members.id.j = "number")
    => result = Return(PyInt(last.outcome.body.members.id.n))

\* C8: every failed call leaves one error or warning record, which carries
\* the status code and the body when there is a response.
C8_EveryFailureLogged ==
    Failed =>
        /\ Len(log) = last.logged + 1
        /\ log[Len(log)].levelname \in { "ERROR", "WARNING" }
        /\ Responded =>
              log[Len(log)].args = <<last.outcome.status_code, PyText(last.outcome.body)>>

\* C9: on a successful response whose body is an array of k entries,
\* get_certificate_requests_table returns k rows, the i-th holding the id, csr
\* and certificate of the i-th entry.
C9_RowsFollowTheServer ==
    (Called("get_certificate_requests_table") /\ Succeeded
        /\ last.outcome.body.j = "array"
        /\ \A i \in DOMAIN last.outcome.body.items : last.outcome.body.items[i].j = "object")
    => /\ result.kind = "return"
       /\ result.val.t = "CertificateRequests"
       /\ Len(result.val.rows) = Len(last.outcome.body.items)
       /\ \A i \in DOMAIN last.outcome.body.items :
             result.val.rows[i] =
                 CertificateRequest(Member(last.outcome.body.items[i], "id"),
                                    Member(last.outcome.body.items[i], "csr"),
                                    Member(last.outcome.body.items[i], "certificate"))

C9_Witness ==
    /\ Called("get_certificate_requests_table")
    /\ Succeeded
    /\ last.outcome.body.j = "array"
    /\ Len(last.outcome.body.items) = 2
    /\ last.outcome.body.items[1] # last.outcome.body.items[2]
    /\ result.kind = "return"
    /\ Len(result.val.rows) = 2
    /\ result.val.rows[1].id = PyInt(2)
    /\ result.val.rows[2].id = PyInt(1)

\* C10: is_initialized returns a bool, True or False, whatever value the
\* "initialized" field of a successful response holds.
C10_AlwaysBoolean ==
    (Called("is_initialized") /\ Succeeded2xx /\ HasMember(last.outcome.body, "initialized"))
    => /\ result.kind = "return"
       /\ result.val.t = "bool"
====
